---- MODULE Spec2Model ----
(***************************************************************************)
(* Model of src/src/index.tsx: the greenhouse watering timer.              *)
(*                                                                         *)
(* Encodings.  A greenhouse key `solar${idx}` is the integer idx.  A Date  *)
(* is its getTime() value in milliseconds.  JavaScript's null, undefined   *)
(* and an Invalid Date are the negative integers Null, Undefined and       *)
(* InvalidDate, so that every field holds an integer.  A log id is the     *)
(* serial number of the generated id string.                               *)
(***************************************************************************)
EXTENDS Integers, Sequences, FiniteSets, TLC

VARIABLES
    state,              \* AppState: the registry and the Active Timer pointer
    logs,               \* LogsState
    modalOpen,
    selectedGreenhouse,
    storage,            \* what localStorage held when the program started
    phase,              \* "boot" until the state initializers have run
    clock,              \* Date.now() at the last Start
    nextId,             \* serial of the next generated log id
    run,                \* history: the timer started last
    last                \* history: the handler that ran last

vars == <<state, logs, modalOpen, selectedGreenhouse, storage, phase, clock, nextId, run, last>>

(***************************************************************************)
(* Bounds of the model.                                                    *)
(***************************************************************************)
\* Timers started in one behaviour.
MaxStarts == 2

\* Greenhouses of the registry (the configured count; the source sets 5).
GREENHOUSE_NUMS == 2

\* Entries appended in one behaviour of the log store's specification.
MaxAppends == 1003

\* Entries of a stored log whose views are rendered.
MaxViewLen == 3

(***************************************************************************)
(* Values.                                                                 *)
(***************************************************************************)
Null == -1
Undefined == -2
InvalidDate == -3

LOG_CAP == 1000

SecondMs == 1000
MinuteMs == 60 * SecondMs
HourMs == 60 * MinuteMs

\* Date.now() when the module is evaluated (the seed log dates hang on it).
BootTime == 25 * HourMs

Keys == 0 .. (GREENHOUSE_NUMS - 1)

TIMER_OPTIONS == <<5, 10, 15, 20, 25, 30>>

TimerMinutes == {TIMER_OPTIONS[i] : i \in DOMAIN TIMER_OPTIONS}

\* A JavaScript value used as a condition: null and undefined are falsy, a
\* Date object (valid or not) and a non-empty key are truthy.
Truthy(v) == v # Null /\ v # Undefined

\* Mutant: Math.floor in place of Math.round.
MathRound_Floor(num, den) == num \div den

\* Math.round of the quotient num / den (den > 0): halves go up.
MathRound(num, den) == (2 * num + den) \div (2 * den)

defaultState ==
    [activeTimer |-> Null,
     greenhouses |-> [idx \in Keys |->
                        [label |-> idx + 1,
                         lastRun |-> Null,
                         currentTime |-> Null,
                         targetTime |-> Null]]]

defaultLogsState ==
    [entries |-> <<
        [id |-> 1, greenhouseId |-> 0, date |-> BootTime - 2 * HourMs,
         duration |-> 15, status |-> "completed"],
        [id |-> 2, greenhouseId |-> 0, date |-> BootTime - 6 * HourMs,
         duration |-> 8, status |-> "canceled"],
        [id |-> 3, greenhouseId |-> 0, date |-> BootTime - 24 * HourMs,
         duration |-> 10, status |-> "completed"] >>]

\* The ids defaultLogsState uses; generated ids follow them.
SeedIds == 3

(***************************************************************************)
(* Log management functions.                                               *)
(***************************************************************************)
\* Mutant: the slice keeps one entry too many.
addLogEntry_SliceOneMore(ls, entry, id) ==
    [entries |-> SubSeq(<<[id |-> id,
                           greenhouseId |-> entry.greenhouseId,
                           date |-> entry.date,
                           duration |-> entry.duration,
                           status |-> entry.status]>> \o ls.entries,
                        1,
                        IF Len(ls.entries) + 1 < LOG_CAP + 1
                            THEN Len(ls.entries) + 1 ELSE LOG_CAP + 1)]

\* Mutant: the new entry takes the place of the newest one.
addLogEntry_ReplacesHead(ls, entry, id) ==
    [entries |-> <<[id |-> id,
                    greenhouseId |-> entry.greenhouseId,
                    date |-> entry.date,
                    duration |-> entry.duration,
                    status |-> entry.status]>> \o Tail(ls.entries)]

\* [newEntry, ...logs.entries].slice(0, 1000)
addLogEntry(ls, entry, id) ==
    [entries |-> SubSeq(<<[id |-> id,
                           greenhouseId |-> entry.greenhouseId,
                           date |-> entry.date,
                           duration |-> entry.duration,
                           status |-> entry.status]>> \o ls.entries,
                        1,
                        IF Len(ls.entries) + 1 < LOG_CAP
                            THEN Len(ls.entries) + 1 ELSE LOG_CAP)]

\* The entries of one greenhouse, as filter gives them: in the log's order.
FilterByGreenhouse(entries, greenhouseId) ==
    LET OfGreenhouse(entry) == entry.greenhouseId = greenhouseId
    IN  SelectSeq(entries, OfGreenhouse)

\* Array.prototype.sort with (a, b) => b.date.getTime() - a.date.getTime():
\* descending by date and stable, an entry going behind the ones of its date
\* that precede it.
RECURSIVE InsertByDate(_, _)
InsertByDate(sorted, entry) ==
    IF sorted = <<>> THEN <<entry>>
    ELSE IF Head(sorted).date >= entry.date
        THEN <<Head(sorted)>> \o InsertByDate(Tail(sorted), entry)
        ELSE <<entry>> \o sorted

RECURSIVE SortByDateDescending(_)
SortByDateDescending(entries) ==
    IF entries = <<>> THEN <<>>
    ELSE InsertByDate(SortByDateDescending(SubSeq(entries, 1, Len(entries) - 1)),
                      entries[Len(entries)])

\* Mutant: the sort is left out.
getGreenhouseLogs_Unsorted(ls, greenhouseId) ==
    FilterByGreenhouse(ls.entries, greenhouseId)

getGreenhouseLogs(ls, greenhouseId) ==
    SortByDateDescending(FilterByGreenhouse(ls.entries, greenhouseId))

getLatestRun(ls, greenhouseId) ==
    LET greenhouseLogs == getGreenhouseLogs(ls, greenhouseId)
    IN  IF Len(greenhouseLogs) > 0 THEN greenhouseLogs[1].date ELSE Null

(***************************************************************************)
(* The persisted payloads and the state initializers.                      *)
(*                                                                         *)
(* A slot of localStorage is absent, holds text JSON.parse rejects, or     *)
(* holds JSON.  A timestamp field of the JSON is an ISO-8601 string of a   *)
(* time, another string, null or missing; the other fields are numbers,    *)
(* keys, null (Null) or missing (Undefined).                               *)
(***************************************************************************)
JIso(t) == [kind |-> "iso", ms |-> t]
JText == [kind |-> "text", ms |-> 0]
JNull == [kind |-> "null", ms |-> 0]
JMissing == [kind |-> "missing", ms |-> 0]

\* new Date(v) of a JSON value: null is the epoch, undefined and a string that
\* is no date give an Invalid Date.
NewDate(d) ==
    CASE d.kind = "iso" -> d.ms
      [] d.kind = "null" -> 0
      [] OTHER -> InvalidDate

\* if (field) field = new Date(field): a falsy field is left as it is.
ReviveIfTruthy(d) ==
    CASE d.kind = "null" -> Null
      [] d.kind = "missing" -> Undefined
      [] OTHER -> NewDate(d)

AbsentSlot == [kind |-> "absent"]

UnparseableSlot == [kind |-> "unparseable"]

\* JSON.parse, Object.keys(parsed.greenhouses) or the read of a greenhouse's
\* lastRun throws: the catch returns defaultState.
StateLoadThrows(p) ==
    \/ p.kind = "unparseable"
    \/ p.kind = "json" /\ ~ p.hasGreenhouses
    \/ p.kind = "json" /\ \E k \in DOMAIN p.greenhouses : p.greenhouses[k].isNull

LoadState(p) ==
    IF p.kind = "absent" \/ StateLoadThrows(p)
        THEN defaultState
        ELSE [activeTimer |-> IF Truthy(p.activeTimer) THEN p.activeTimer ELSE Null,
              greenhouses |-> [k \in DOMAIN p.greenhouses |->
                                 [label |-> p.greenhouses[k].label,
                                  lastRun |-> ReviveIfTruthy(p.greenhouses[k].lastRun),
                                  currentTime |-> p.greenhouses[k].currentTime,
                                  targetTime |-> ReviveIfTruthy(p.greenhouses[k].targetTime)]]]

\* JSON.parse or parsed.entries.map throws: the catch returns defaultLogsState.
LogsLoadThrows(p) ==
    \/ p.kind = "unparseable"
    \/ p.kind = "json" /\ ~ p.hasEntries

LoadLogs(p) ==
    IF p.kind = "absent" \/ LogsLoadThrows(p)
        THEN defaultLogsState
        ELSE [entries |-> [i \in DOMAIN p.entries |->
                             [id |-> p.entries[i].id,
                              greenhouseId |-> p.entries[i].greenhouseId,
                              date |-> NewDate(p.entries[i].date),
                              duration |-> p.entries[i].duration,
                              status |-> p.entries[i].status]]]

\* The ids a loaded log may hold precede the generated ones.
FirstGeneratedId == SeedIds + 1

(***************************************************************************)
(* What is on screen: the handlers a user can reach.                       *)
(***************************************************************************)
\* state.activeTimer ? <TimerView/> : overview
TimerViewRendered == phase = "running" /\ Truthy(state.activeTimer)

\* Mutant: the overview stays on screen beside the timer view.
OverviewRendered_Always == phase = "running"

OverviewRendered == phase = "running" /\ ~ Truthy(state.activeTimer)

\* <TimerModal isOpen={modalOpen}/> is part of the overview.
ModalRendered == OverviewRendered /\ modalOpen

IsRunning(g) == g.currentTime # Null /\ g.currentTime # Undefined /\ g.currentTime > 0

IsCompleted(g) == g.currentTime = 0

(***************************************************************************)
(* History variables: `run` follows the timer started last, `last` names   *)
(* the handler that ran last.                                              *)
(***************************************************************************)
NoRun == [key |-> Null, minutes |-> 0, startedAt |-> Null, ticks |-> 0, appended |-> 0]

\* minutes and wholeMinutes describe the run a cancel ended: the minutes it was
\* started with and, when a whole number of minutes of ticks had fired, that
\* number (Null otherwise).
Did(op, key) == [op |-> op, key |-> key, minutes |-> 0, wholeMinutes |-> Null]

DidCancel(key, r) ==
    [op |-> "cancel", key |-> key, minutes |-> r.minutes,
     wholeMinutes |-> IF r.minutes > 0 /\ r.ticks % 60 = 0 THEN r.ticks \div 60 ELSE Null]

\* Ticks are counted up to one past the selected duration.
CountTick(r) ==
    IF r.minutes > 0 /\ r.ticks <= r.minutes * 60
        THEN [r EXCEPT !.ticks = @ + 1] ELSE r

CountAppends(r, n) ==
    IF r.minutes > 0 THEN [r EXCEPT !.appended = @ + n] ELSE r

(***************************************************************************)
(* Timer update effect: one firing of the setInterval callback.            *)
(***************************************************************************)
\* Mutant: every greenhouse with a time is decremented.
TickGreenhouse_NoRunningTest(g) ==
    IF g.currentTime # Null THEN [g EXCEPT !.currentTime = @ - 1] ELSE g

TickGreenhouse(g) ==
    IF IsRunning(g) THEN [g EXCEPT !.currentTime = @ - 1] ELSE g

\* Mutant: only the greenhouse of the pointer is looked at.
TickedState_ActiveOnly(st) ==
    [st EXCEPT !.greenhouses = [k \in DOMAIN st.greenhouses |->
                                  IF k = st.activeTimer
                                      THEN TickGreenhouse(st.greenhouses[k])
                                      ELSE st.greenhouses[k]]]

TickedState(st) ==
    [st EXCEPT !.greenhouses = [k \in DOMAIN st.greenhouses |-> TickGreenhouse(st.greenhouses[k])]]

\* Mutant: the completion test reads the time before the decrement.
CompletesNow_OldTime(g) ==
    IsRunning(g) /\ g.currentTime = 0 /\ Truthy(g.targetTime) /\ Truthy(g.lastRun)

\* The timer of greenhouse g completes in this tick and is logged.
CompletesNow(g) ==
    IsRunning(g) /\ g.currentTime - 1 = 0 /\ Truthy(g.targetTime) /\ Truthy(g.lastRun)

CompletedDuration(g) == MathRound(g.targetTime - g.lastRun, MinuteMs)

\* The setLogs calls of one tick, in Object.keys order, from key k on.
RECURSIVE TickLogs(_, _, _, _)
TickLogs(gs, ls, id, k) ==
    IF k >= GREENHOUSE_NUMS THEN ls
    ELSE IF k \in DOMAIN gs /\ CompletesNow(gs[k])
        THEN TickLogs(gs,
                      addLogEntry(ls, [greenhouseId |-> k,
                                       date |-> gs[k].lastRun,
                                       duration |-> CompletedDuration(gs[k]),
                                       status |-> "completed"], id),
                      id + 1, k + 1)
        ELSE TickLogs(gs, ls, id, k + 1)

\* Mutant: the append is left to a later step.
TickedLogs_Deferred(st, ls, id) == ls

TickedLogs(st, ls, id) == TickLogs(st.greenhouses, ls, id, 0)

Tick ==
    LET completing == Cardinality({k \in DOMAIN state.greenhouses :
                                      CompletesNow(state.greenhouses[k])})
    IN  /\ phase = "running"
        /\ state' = TickedState(state)
        /\ logs' = TickedLogs(state, logs, nextId)
        /\ nextId' = nextId + completing
        /\ run' = CountAppends(CountTick(run), completing)
        /\ last' = Did("tick", Null)
        /\ UNCHANGED <<modalOpen, selectedGreenhouse, storage, phase, clock>>

(***************************************************************************)
(* handleGreenhouseClick: a click on a card of the overview.               *)
(***************************************************************************)
\* Mutant: the reset forgets targetTime.
ResetGreenhouse_KeepsTarget(g) == [g EXCEPT !.currentTime = Null]

ResetGreenhouse(g) == [g EXCEPT !.currentTime = Null, !.targetTime = Null]

\* Mutant: the test for a running timer is missing.
ClickBranch_NoRunningTest(g) == IF IsCompleted(g) THEN "reset" ELSE "open"

\* The branch the click takes: "reset" a completed timer, "ignore" a running
\* one, "open" the modal otherwise.
ClickBranch(g) ==
    IF IsCompleted(g) THEN "reset" ELSE IF IsRunning(g) THEN "ignore" ELSE "open"

ClickedState(st, id) ==
    IF ClickBranch(st.greenhouses[id]) = "reset"
        THEN [activeTimer |-> Null,
              greenhouses |-> [st.greenhouses EXCEPT ![id] = ResetGreenhouse(@)]]
        ELSE st

handleGreenhouseClick(id) ==
    /\ OverviewRendered
    /\ id \in DOMAIN state.greenhouses
    /\ state' = ClickedState(state, id)
    /\ IF ClickBranch(state.greenhouses[id]) = "open"
         THEN selectedGreenhouse' = id /\ modalOpen' = TRUE
         ELSE UNCHANGED <<selectedGreenhouse, modalOpen>>
    /\ run' = IF ClickBranch(state.greenhouses[id]) = "reset" THEN NoRun ELSE run
    /\ last' = Did("click", id)
    /\ UNCHANGED <<logs, storage, phase, clock, nextId>>

(***************************************************************************)
(* handleTimerSelect: a duration button of the modal.                      *)
(***************************************************************************)
StartedGreenhouse(g, now, minutes) ==
    [g EXCEPT !.lastRun = now,
              !.currentTime = minutes * 60,
              !.targetTime = now + minutes * 60 * 1000]

\* Mutant: the greenhouse is started and the pointer is left as it is.
SelectedState_KeepsPointer(st, selected, now, minutes) ==
    IF ~ Truthy(selected)
        THEN st
        ELSE [st EXCEPT !.greenhouses[selected] = StartedGreenhouse(@, now, minutes)]

SelectedState(st, selected, now, minutes) ==
    IF ~ Truthy(selected)
        THEN st
        ELSE [activeTimer |-> selected,
              greenhouses |-> [st.greenhouses EXCEPT
                                 ![selected] = StartedGreenhouse(@, now, minutes)]]

handleTimerSelect(minutes) ==
    /\ ModalRendered
    /\ clock < BootTime + MaxStarts * SecondMs
    /\ LET now == clock + SecondMs
       IN  /\ state' = SelectedState(state, selectedGreenhouse, now, minutes)
           /\ IF ~ Truthy(selectedGreenhouse)
                THEN UNCHANGED <<modalOpen, selectedGreenhouse, clock, run>>
                ELSE /\ clock' = now
                     /\ modalOpen' = FALSE
                     /\ selectedGreenhouse' = Null
                     /\ run' = [key |-> selectedGreenhouse, minutes |-> minutes,
                                startedAt |-> now, ticks |-> 0, appended |-> 0]
    /\ last' = Did("select", selectedGreenhouse)
    /\ UNCHANGED <<logs, storage, phase, nextId>>

handleModalClose ==
    /\ ModalRendered
    /\ modalOpen' = FALSE
    /\ selectedGreenhouse' = Null
    /\ last' = Did("close", Null)
    /\ UNCHANGED <<state, logs, storage, phase, clock, nextId, run>>

(***************************************************************************)
(* handleTimerCancel: the button of the timer view (cancel, or back once   *)
(* the timer has completed).                                               *)
(*                                                                         *)
(* The handler reads state.greenhouses[state.activeTimer] of the state of  *)
(* the render that made it.  The tick writes its new greenhouse into the   *)
(* greenhouses object of the previous state (newState is a shallow copy),  *)
(* so that object is the current one, and the handler is made anew when    *)
(* activeTimer or the greenhouses object changes: what it reads when it is *)
(* called is the current greenhouse.  Preact calls a useState updater      *)
(* when setState is called, so handler and updater are one step.           *)
(***************************************************************************)
\* Mutant: a timer that has completed is logged as canceled too.
CancelLogged_NoRunningTest(g) ==
    g.currentTime # Null /\ Truthy(g.lastRun) /\ Truthy(g.targetTime)

\* The run of g is logged as canceled.
CancelLogged(g) ==
    IsRunning(g) /\ Truthy(g.lastRun) /\ Truthy(g.targetTime)

\* Mutant: the remaining minutes are rounded up.
CanceledDuration_CeilRemaining(g) ==
    MathRound(g.targetTime - g.lastRun, MinuteMs) - (g.currentTime + 59) \div 60

\* Mutant: the remaining minutes are logged, not the elapsed ones.
CanceledDuration_Remaining(g) == MathRound(g.currentTime, 60)

\* Mutant: the remaining seconds are subtracted as they are.
CanceledDuration_SecondsRemaining(g) ==
    MathRound(g.targetTime - g.lastRun, MinuteMs) - g.currentTime

CanceledDuration(g) ==
    LET totalDuration == MathRound(g.targetTime - g.lastRun, MinuteMs)
    IN  totalDuration - MathRound(g.currentTime, 60)

CanceledLogs(st, ls, id) ==
    IF CancelLogged(st.greenhouses[st.activeTimer])
        THEN addLogEntry(ls, [greenhouseId |-> st.activeTimer,
                              date |-> st.greenhouses[st.activeTimer].lastRun,
                              duration |-> CanceledDuration(st.greenhouses[st.activeTimer]),
                              status |-> "canceled"], id)
        ELSE ls

\* Mutant: the pointer is not cleared.
CanceledState_KeepsPointer(st) ==
    [st EXCEPT !.greenhouses[st.activeTimer] = ResetGreenhouse(@)]

CanceledState(st) ==
    [activeTimer |-> Null,
     greenhouses |-> [st.greenhouses EXCEPT ![st.activeTimer] = ResetGreenhouse(@)]]

handleTimerCancel ==
    /\ TimerViewRendered
    /\ state' = CanceledState(state)
    /\ logs' = CanceledLogs(state, logs, nextId)
    /\ nextId' = IF CancelLogged(state.greenhouses[state.activeTimer])
                    THEN nextId + 1 ELSE nextId
    /\ last' = IF IsRunning(state.greenhouses[state.activeTimer])
                  THEN DidCancel(state.activeTimer, run)
                  ELSE Did("back", state.activeTimer)
    /\ run' = NoRun
    /\ UNCHANGED <<modalOpen, selectedGreenhouse, storage, phase, clock>>

(***************************************************************************)
(* The program started on an empty storage.                                *)
(***************************************************************************)
Mounted(st, ls) ==
    /\ state = LoadState(st)
    /\ logs = LoadLogs(ls)
    /\ modalOpen = FALSE
    /\ selectedGreenhouse = Null
    /\ phase = "running"
    /\ nextId = FirstGeneratedId
    /\ run = NoRun
    /\ last = Did("init", Null)

Init ==
    /\ storage = [state |-> AbsentSlot, logs |-> AbsentSlot]
    /\ clock = BootTime
    /\ Mounted(storage.state, storage.logs)

Next ==
    \/ Tick
    \/ \E id \in Keys : handleGreenhouseClick(id)
    \/ \E i \in DOMAIN TIMER_OPTIONS : handleTimerSelect(TIMER_OPTIONS[i])
    \/ handleModalClose
    \/ handleTimerCancel

Spec == Init /\ [][Next]_vars

(***************************************************************************)
(* Startup on a storage that holds something: the state initializers       *)
(* applied to the payloads of the two slots.                               *)
(***************************************************************************)
\* A time before the program started, and a later one.
StoredTime == BootTime - HourMs

StoredGreenhouse(k, lastRun, currentTime, targetTime) ==
    [isNull |-> FALSE, label |-> k + 1, lastRun |-> lastRun,
     currentTime |-> currentTime, targetTime |-> targetTime]

\* A greenhouse stored as JSON null.
NullGreenhouse(k) ==
    [isNull |-> TRUE, label |-> k + 1, lastRun |-> JNull,
     currentTime |-> Null, targetTime |-> JNull]

IdleStored(k) == StoredGreenhouse(k, JNull, Null, JNull)

StatePayload(activeTimer, hasGreenhouses, greenhouses) ==
    [kind |-> "json", activeTimer |-> activeTimer,
     hasGreenhouses |-> hasGreenhouses, greenhouses |-> greenhouses]

\* The registry with greenhouse 0 stored as g0 and the others idle, over keys.
RegistryWith(keys, g0) == [k \in keys |-> IF k = 0 THEN g0 ELSE IdleStored(k)]

StoredGreenhouses ==
    {NullGreenhouse(0)} \cup
    {StoredGreenhouse(0, lastRun, currentTime, targetTime) :
        lastRun \in {JNull, JIso(StoredTime), JText},
        currentTime \in {Null, Undefined, 0, 90},
        targetTime \in {JNull, JMissing, JIso(StoredTime + 5 * MinuteMs), JText}}

StatePayloads ==
    {AbsentSlot, UnparseableSlot}
    \cup {StatePayload(a, FALSE, RegistryWith({}, IdleStored(0))) : a \in {Null, Undefined}}
    \cup {StatePayload(a, TRUE, RegistryWith(keys, g0)) :
             a \in {Null, Undefined, 0}, keys \in {Keys, {0}}, g0 \in StoredGreenhouses}

StoredEntry(date) ==
    [id |-> 1, greenhouseId |-> 0, date |-> date, duration |-> 5, status |-> "completed"]

LogsPayload(hasEntries, entries) ==
    [kind |-> "json", hasEntries |-> hasEntries, entries |-> entries]

LogsPayloads ==
    {AbsentSlot, UnparseableSlot, LogsPayload(FALSE, <<>>), LogsPayload(TRUE, <<>>)}
    \cup {LogsPayload(TRUE, <<StoredEntry(date)>>) :
             date \in {JIso(StoredTime), JText, JNull, JMissing}}

(***************************************************************************)
(* The persistence effects: after a render the slots hold                  *)
(* JSON.stringify(state) and JSON.stringify(logs).                         *)
(***************************************************************************)
\* Mutant: the timestamp is written to the minute.
DateToJSON_Minutes(v) ==
    IF v \in {Null, InvalidDate} THEN JNull
    ELSE IF v = Undefined THEN JMissing
    ELSE JIso(v - (v % MinuteMs))

\* JSON.stringify of a timestamp field: Date.prototype.toJSON gives the ISO
\* string of a valid Date and null of an invalid one; undefined is left out.
DateToJSON(v) ==
    IF v \in {Null, InvalidDate} THEN JNull
    ELSE IF v = Undefined THEN JMissing
    ELSE JIso(v)

SavedState(st) ==
    StatePayload(st.activeTimer, TRUE,
                 [k \in DOMAIN st.greenhouses |->
                    [isNull |-> FALSE,
                     label |-> st.greenhouses[k].label,
                     lastRun |-> DateToJSON(st.greenhouses[k].lastRun),
                     currentTime |-> st.greenhouses[k].currentTime,
                     targetTime |-> DateToJSON(st.greenhouses[k].targetTime)]])

SavedLogs(ls) ==
    LogsPayload(TRUE,
                [i \in DOMAIN ls.entries |->
                   [id |-> ls.entries[i].id,
                    greenhouseId |-> ls.entries[i].greenhouseId,
                    date |-> DateToJSON(ls.entries[i].date),
                    duration |-> ls.entries[i].duration,
                    status |-> ls.entries[i].status]])

\* Before App is called only the module's constants exist.
InitLoad ==
    /\ storage \in [state : StatePayloads, logs : LogsPayloads]
    /\ phase = "boot"
    /\ state = defaultState
    /\ logs = defaultLogsState
    /\ modalOpen = FALSE
    /\ selectedGreenhouse = Null
    /\ clock = BootTime
    /\ nextId = FirstGeneratedId
    /\ run = NoRun
    /\ last = Did("init", Null)

\* The first render of App: the two useState initializers.
Startup ==
    /\ phase = "boot"
    /\ phase' = "running"
    /\ state' = LoadState(storage.state)
    /\ logs' = LoadLogs(storage.logs)
    /\ last' = Did("startup", Null)
    /\ UNCHANGED <<modalOpen, selectedGreenhouse, storage, clock, nextId, run>>

SpecLoad == InitLoad /\ [][Startup]_vars

(***************************************************************************)
(* The program resumed from a stored snapshot of the documented shape, in  *)
(* which greenhouse 0 is Idle, Running or JustCompleted and the pointer is *)
(* null, missing or names it.  One more timer may be started.              *)
(***************************************************************************)
ResumeGreenhouses ==
    {IdleStored(0)} \cup
    {StoredGreenhouse(0, JIso(StoredTime), currentTime, JIso(StoredTime + 5 * MinuteMs)) :
        currentTime \in {0, 2}}

ResumeSnapshots ==
    {StatePayload(a, TRUE, RegistryWith(Keys, g0)) :
        a \in {Null, Undefined}, g0 \in ResumeGreenhouses}
    \cup {StatePayload(0, TRUE, RegistryWith(Keys, g0)) :
             g0 \in ResumeGreenhouses \ {IdleStored(0)}}

InitResume ==
    /\ storage \in [state : ResumeSnapshots, logs : {AbsentSlot}]
    /\ clock = BootTime + (MaxStarts - 1) * SecondMs
    /\ Mounted(storage.state, storage.logs)

SpecResume == InitResume /\ [][Next]_vars

(***************************************************************************)
(* The overview over a stored log: the program starts on a log of up to    *)
(* MaxViewLen entries with valid dates in any order, and renders the card  *)
(* of a greenhouse, which reads the greenhouse's entries.                  *)
(***************************************************************************)
ViewDates == {StoredTime, StoredTime + MinuteMs, StoredTime + HourMs}

ViewEntry(i, greenhouseId, date) ==
    [id |-> i, greenhouseId |-> greenhouseId, date |-> JIso(date),
     duration |-> 5, status |-> "completed"]

ViewPayloads ==
    {LogsPayload(TRUE, <<>>)}
    \cup UNION {{LogsPayload(TRUE, [i \in 1 .. n |->
                                      ViewEntry(i, choice[i][1], choice[i][2])]) :
                    choice \in [1 .. n -> Keys \X ViewDates]} : n \in 1 .. MaxViewLen}

InitView ==
    /\ storage \in [state : {AbsentSlot}, logs : ViewPayloads]
    /\ clock = BootTime
    /\ Mounted(storage.state, storage.logs)

\* The render of the card of greenhouse id: getLatestRun(logs, id), which
\* reads getGreenhouseLogs(logs, id).
RenderCard(id) ==
    /\ OverviewRendered
    /\ id \in DOMAIN state.greenhouses
    /\ last' = [op |-> "render", key |-> id, minutes |-> 0, wholeMinutes |-> Null,
                greenhouseLogs |-> getGreenhouseLogs(logs, id),
                lastRun |-> getLatestRun(logs, id)]
    /\ UNCHANGED <<state, logs, modalOpen, selectedGreenhouse, storage, phase, clock,
                   nextId, run>>

NextView == \E id \in Keys : RenderCard(id)

SpecView == InitView /\ [][NextView]_vars

(***************************************************************************)
(* The log store alone: addLogEntry applied over and again, from the       *)
(* default log.  The entry appended is set by its serial, so that a log of *)
(* LOG_CAP entries lies on one path; once the log is about to be full, its *)
(* status is free.                                                         *)
(***************************************************************************)
WorkloadEntry(n, status) ==
    [greenhouseId |-> n % GREENHOUSE_NUMS,
     date |-> BootTime + n * SecondMs,
     duration |-> TIMER_OPTIONS[(n % Len(TIMER_OPTIONS)) + 1],
     status |-> status]

WorkloadStatuses ==
    IF Len(logs.entries) + 1 >= LOG_CAP THEN {"completed", "canceled"} ELSE {"completed"}

AppendLog ==
    /\ phase = "running"
    /\ nextId < FirstGeneratedId + MaxAppends
    /\ \E status \in WorkloadStatuses :
          logs' = addLogEntry(logs, WorkloadEntry(nextId, status), nextId)
    /\ nextId' = nextId + 1
    /\ last' = Did("append", Null)
    /\ UNCHANGED <<state, modalOpen, selectedGreenhouse, storage, phase, clock, run>>

SpecLog == Init /\ [][AppendLog]_vars

(***************************************************************************)
(* Properties.                                                             *)
(***************************************************************************)
Entries == logs.entries

ActiveGreenhouse == state.greenhouses[state.activeTimer]

\* handleTimerCancel can run, and its greenhouse is Running.
CancelOfRunning == TimerViewRendered /\ IsRunning(ActiveGreenhouse)

\* The log handleTimerCancel leaves when it runs in this state.
AfterCancel == CanceledLogs(state, logs, nextId).entries

\* Exactly one entry is put before those of the log.
PrependsOne(after) ==
    /\ Len(after) = Len(Entries) + 1
    /\ Tail(after) = Entries

\* r is num / den rounded to the nearest integer, halves up.
IsRounded(r, num, den) ==
    2 * den * r - den <= 2 * num /\ 2 * num < 2 * den * r + den

\* C1: a Start with m minutes followed by m*60 Ticks and nothing else keeps the
\* greenhouse Running through the first m*60-1 Ticks, makes it JustCompleted on
\* the last one, and appends exactly one entry over the sequence: completed,
\* for that greenhouse, of duration m, dated with the start timestamp.
C1_StartThenTicksCompletes ==
    run.minutes > 0 =>
        LET g == state.greenhouses[run.key]
            total == run.minutes * 60
        IN  /\ run.minutes \in TimerMinutes
            /\ g.lastRun = run.startedAt
            /\ run.ticks < total =>
                   /\ g.currentTime # Null /\ g.currentTime > 0
                   /\ run.appended = 0
            /\ run.ticks = total =>
                   /\ g.currentTime = 0
                   /\ run.appended = 1
                   /\ Head(Entries).status = "completed"
                   /\ Head(Entries).greenhouseId = run.key
                   /\ Head(Entries).duration = run.minutes
                   /\ Head(Entries).date = run.startedAt

\* A 30 minute timer has run its 1800 Ticks and completed.
C1_Witness ==
    /\ run.minutes = 30 /\ run.ticks = 1800
    /\ state.greenhouses[run.key].currentTime = 0
    /\ Head(Entries).status = "completed" /\ Head(Entries).duration = 30

\* C2 as claimed: a Cancel after k Ticks, 0 < k < m*60, appends exactly one
\* canceled entry whose duration is strictly less than m.
C2_CancelDurationBelowSelected ==
    (CancelOfRunning /\ run.minutes > 0 /\ 0 < run.ticks /\ run.ticks < run.minutes * 60)
        => /\ PrependsOne(AfterCancel)
           /\ Head(AfterCancel).status = "canceled"
           /\ Head(AfterCancel).duration < run.minutes

\* C2 amended: a Cancel after k Ticks, 0 <= k < m*60, appends exactly one
\* canceled entry whose duration lies in 0..m; it is strictly less than m
\* exactly when at least 30 seconds remain, and it is 0 when no Tick has fired.
C2_CancelDurationAtMostSelected ==
    (CancelOfRunning /\ run.minutes > 0 /\ run.ticks < run.minutes * 60)
        => /\ PrependsOne(AfterCancel)
           /\ Head(AfterCancel).status = "canceled"
           /\ Head(AfterCancel).duration >= 0
           /\ Head(AfterCancel).duration <= run.minutes
           /\ (Head(AfterCancel).duration < run.minutes
                 <=> run.minutes * 60 - run.ticks >= 30)
           /\ (run.ticks = 0 => Head(AfterCancel).duration = 0)

\* A timer was canceled in its last half minute and logged with the full
\* selected duration.
C2_Witness ==
    /\ last.op = "cancel" /\ last.minutes = 5 /\ last.wholeMinutes = Null
    /\ Head(Entries).status = "canceled" /\ Head(Entries).duration = 5

\* C3 as claimed: a Cancel after e whole minutes of Ticks of a timer of m
\* minutes records m - e (10 minutes, 120 Ticks: 8) and leaves it Idle.
C3_CancelRecordsRemaining ==
    (CancelOfRunning /\ run.minutes > 0 /\ run.ticks % 60 = 0
                     /\ run.ticks < run.minutes * 60)
        => /\ PrependsOne(AfterCancel)
           /\ Head(AfterCancel).status = "canceled"
           /\ Head(AfterCancel).duration = run.minutes - run.ticks \div 60
           /\ CanceledState(state).greenhouses[state.activeTimer].currentTime = Null

\* C3 amended: a Cancel after e whole minutes of Ticks of a timer of m minutes
\* records the elapsed minutes e (10 minutes, 120 Ticks: 2) and leaves the
\* greenhouse Idle.
C3_CancelRecordsElapsed ==
    (CancelOfRunning /\ run.minutes > 0 /\ run.ticks % 60 = 0
                     /\ run.ticks < run.minutes * 60)
        => /\ PrependsOne(AfterCancel)
           /\ Head(AfterCancel).status = "canceled"
           /\ Head(AfterCancel).greenhouseId = state.activeTimer
           /\ Head(AfterCancel).duration = run.ticks \div 60
           /\ (run.minutes = 10 /\ run.ticks = 120 => Head(AfterCancel).duration = 2)
           /\ CanceledState(state).greenhouses[state.activeTimer].currentTime = Null
           /\ CanceledState(state).greenhouses[state.activeTimer].targetTime = Null

\* A 10 minute timer was canceled after 120 Ticks and logged with duration 2.
C3_Witness ==
    /\ last.op = "cancel" /\ last.minutes = 10 /\ last.wholeMinutes = 2
    /\ Head(Entries).status = "canceled" /\ Head(Entries).duration = 2
    /\ state.greenhouses[last.key].currentTime = Null

\* C4: a Cancel on a Running greenhouse prepends an entry with status canceled,
\* the greenhouse's lastRun as date and round((targetTime - lastRun)/60000) -
\* round(currentTime/60) as duration, on the values at the Cancel, then nulls
\* the greenhouse's currentTime and targetTime and the Active Timer pointer.
C4_CancelEntryAndReset ==
    CancelOfRunning =>
        LET key == state.activeTimer
            g == ActiveGreenhouse
            after == CanceledState(state)
        IN  /\ PrependsOne(AfterCancel)
            /\ Head(AfterCancel).status = "canceled"
            /\ Head(AfterCancel).greenhouseId = key
            /\ Head(AfterCancel).date = g.lastRun
            /\ \E total \in 0 .. 30 :
                  /\ IsRounded(total, g.targetTime - g.lastRun, 60000)
                  /\ \E remaining \in 0 .. 30 :
                        /\ IsRounded(remaining, g.currentTime, 60)
                        /\ Head(AfterCancel).duration = total - remaining
            /\ after.greenhouses[key].currentTime = Null
            /\ after.greenhouses[key].targetTime = Null
            /\ after.activeTimer = Null
            /\ \A k \in DOMAIN state.greenhouses \ {key} :
                  after.greenhouses[k] = state.greenhouses[k]

\* A Running timer was canceled part way through a minute, logged and reset.
C4_Witness ==
    /\ last.op = "cancel" /\ last.minutes = 15 /\ last.wholeMinutes = Null
    /\ Head(Entries).status = "canceled" /\ Head(Entries).duration = 7
    /\ Head(Entries).date = state.greenhouses[last.key].lastRun
    /\ state.greenhouses[last.key].currentTime = Null
    /\ state.greenhouses[last.key].targetTime = Null
    /\ state.activeTimer = Null

\* C5: every greenhouse has a null currentTime exactly when its targetTime is
\* null.
C5_IdleInvariant ==
    \A k \in DOMAIN state.greenhouses :
        state.greenhouses[k].currentTime = Null <=> state.greenhouses[k].targetTime = Null

\* One greenhouse is back to Idle after a canceled run while another one runs.
C5_Witness ==
    \E a, b \in Keys :
        /\ a # b
        /\ state.greenhouses[a].lastRun # Null
        /\ state.greenhouses[a].currentTime = Null
        /\ state.greenhouses[a].targetTime = Null
        /\ state.greenhouses[b].currentTime = 7
        /\ state.greenhouses[b].targetTime # Null
        /\ Head(Entries).status = "canceled"

\* C6: at most one greenhouse has a non-null currentTime, so at most one is
\* Running and no timer starts while another greenhouse is Running or
\* JustCompleted.
C6_SingleActiveTimer ==
    Cardinality({k \in DOMAIN state.greenhouses :
                    state.greenhouses[k].currentTime # Null}) <= 1

\* A second timer runs on another greenhouse once the first one was
\* acknowledged.
C6_Witness ==
    \E a, b \in Keys :
        /\ a # b
        /\ state.greenhouses[a].lastRun # Null
        /\ state.greenhouses[a].currentTime = Null
        /\ IsRunning(state.greenhouses[b])
        /\ Head(Entries).status = "completed"
        /\ Head(Entries).greenhouseId = a

\* C7: the log never holds more than LOG_CAP entries and keeps them newest
\* first by insertion (generated ids fall by one from the head, the seed
\* entries stay behind them in their order); an append to a full log puts the
\* new entry at the head, drops the last entry only and keeps the other 999 in
\* their order, and an append to a log that is not full drops nothing.
C7_LogCappedNewestFirst ==
    LET after == addLogEntry(logs, WorkloadEntry(nextId, "canceled"), nextId).entries
        n == Len(Entries)
    IN  /\ n <= LOG_CAP
        /\ \A i \in 1 .. n - 1 :
              IF Entries[i].id >= FirstGeneratedId
                  THEN \/ Entries[i + 1].id = Entries[i].id - 1
                       \/ Entries[i + 1].id = 1 /\ Entries[i].id = FirstGeneratedId
                  ELSE Entries[i + 1].id = Entries[i].id + 1
        /\ Head(after).id = nextId
        /\ Head(after).status = "canceled"
        /\ IF n = LOG_CAP
             THEN /\ Len(after) = LOG_CAP
                  /\ SubSeq(after, 2, LOG_CAP) = SubSeq(Entries, 1, LOG_CAP - 1)
             ELSE Tail(after) = Entries

\* The log is full and its seed entries have been dropped off the end.
C7_Witness ==
    /\ Len(Entries) = LOG_CAP
    /\ Entries[LOG_CAP].id > FirstGeneratedId
    /\ Entries[1].id = Entries[LOG_CAP].id + LOG_CAP - 1
    /\ last.op = "append"

\* The greenhouses whose card shows a timer that is not Idle.
BusyCards ==
    {id \in DOMAIN state.greenhouses :
        OverviewRendered /\ state.greenhouses[id].currentTime # Null}

StateSlotMalformed(p) ==
    \/ p.kind \in {"absent", "unparseable"}
    \/ p.kind = "json" /\ ~ p.hasGreenhouses
    \/ p.kind = "json" /\ \E k \in DOMAIN p.greenhouses :
          \/ p.greenhouses[k].currentTime = Undefined
          \/ p.greenhouses[k].targetTime = JMissing

LogsSlotMalformed(p) ==
    \/ p.kind \in {"absent", "unparseable"}
    \/ p.kind = "json" /\ ~ p.hasEntries

C9_MalformedLoadsDefault ==
    last.op = "startup" =>
        /\ StateSlotMalformed(storage.state) => state = defaultState
        /\ LogsSlotMalformed(storage.logs) => logs = defaultLogsState

\* C10 as claimed: nothing loaded carries an invalid timestamp.
C10_NoInvalidTimestampLoaded ==
    last.op = "startup" =>
        /\ \A k \in DOMAIN state.greenhouses :
              /\ state.greenhouses[k].lastRun # InvalidDate
              /\ state.greenhouses[k].targetTime # InvalidDate
        /\ \A i \in DOMAIN logs.entries : logs.entries[i].date # InvalidDate

\* C11: in every reachable state, persisting the state and the logs and
\* loading them again gives the same state and logs, and persisting what was
\* loaded gives the same snapshot.
C11_PersistLoadRoundTrip ==
    /\ LoadState(SavedState(state)) = state
    /\ LoadLogs(SavedLogs(logs)) = logs
    /\ SavedState(LoadState(SavedState(state))) = SavedState(state)
    /\ SavedLogs(LoadLogs(SavedLogs(logs))) = SavedLogs(logs)

\* A run is under way, some ticks have fired and an entry has been appended
\* since startup.
C11_Witness ==
    /\ Truthy(state.activeTimer)
    /\ IsRunning(state.greenhouses[state.activeTimer])
    /\ run.ticks > 0
    /\ Len(logs.entries) > SeedIds
    /\ LoadState(SavedState(state)) = state

\* The step is a click on the card of a JustCompleted greenhouse.
AcknowledgeByCard ==
    /\ last'.op = "click"
    /\ OverviewRendered
    /\ IsCompleted(state.greenhouses[last'.key])

\* The step is the back button of the timer view of a JustCompleted greenhouse.
AcknowledgeByBack ==
    /\ last'.op = "back"
    /\ TimerViewRendered
    /\ last'.key = state.activeTimer
    /\ IsCompleted(state.greenhouses[state.activeTimer])

\* C12: Acknowledge of a JustCompleted greenhouse, from its card or from the
\* back button of the timer view, nulls its currentTime and targetTime and the
\* pointer, appends no entry, and keeps lastRun, the label and every other
\* greenhouse.
C12_AcknowledgeResetsOnly ==
    [][(AcknowledgeByCard \/ AcknowledgeByBack) =>
          LET k == last'.key
          IN  /\ state'.activeTimer = Null
              /\ state'.greenhouses[k].currentTime = Null
              /\ state'.greenhouses[k].targetTime = Null
              /\ state'.greenhouses[k].lastRun = state.greenhouses[k].lastRun
              /\ state'.greenhouses[k].label = state.greenhouses[k].label
              /\ DOMAIN state'.greenhouses = DOMAIN state.greenhouses
              /\ \A j \in DOMAIN state.greenhouses \ {k} :
                    state'.greenhouses[j] = state.greenhouses[j]
              /\ logs' = logs]_vars

\* The back button was pressed on a completed timer: the greenhouse is Idle
\* and keeps the start of its run.
C12_Witness ==
    /\ last.op = "back"
    /\ state.activeTimer = Null
    /\ state.greenhouses[last.key].currentTime = Null
    /\ state.greenhouses[last.key].lastRun # Null

\* C13: a tick fired while no greenhouse is Running changes neither the
\* registry, the pointer nor the logs; no currentTime is ever below 0.
C13_IdleTickChangesNothing ==
    [][(last'.op = "tick" /\ \A k \in DOMAIN state.greenhouses :
                                ~ IsRunning(state.greenhouses[k]))
          => /\ state' = state
             /\ logs' = logs
             /\ \A k \in DOMAIN state'.greenhouses :
                   state'.greenhouses[k].currentTime \in {Null} \cup (0 .. 30 * 60)]_vars

\* A tick has fired on a timer that had already completed: it still shows 0.
C13_Witness ==
    /\ last.op = "tick"
    /\ Truthy(state.activeTimer)
    /\ IsCompleted(state.greenhouses[state.activeTimer])
    /\ run.minutes > 0
    /\ run.ticks = run.minutes * 60 + 1
    /\ run.appended = 1

\* The entries of the step's new log that the old log does not hold.
AddedByStep ==
    Cardinality({i \in DOMAIN logs'.entries :
                    \A j \in DOMAIN logs.entries : logs'.entries[i].id # logs.entries[j].id})

\* C14: every step keeps the entries of the log as they are and in their
\* order, behind the entries it adds, up to the cap; entries are added only
\* by a tick that brings a greenhouse from 1 to 0 (completed) and by a cancel
\* of a Running greenhouse (canceled).
C14_LogAppendOnly ==
    [][LET old == logs.entries
           new == logs'.entries
           added == AddedByStep
       IN  /\ Len(new) = IF Len(old) + added < LOG_CAP THEN Len(old) + added ELSE LOG_CAP
           /\ \A i \in DOMAIN old : i + added <= LOG_CAP => new[i + added] = old[i]
           /\ added > 0 =>
                \/ /\ last'.op = "tick"
                   /\ \A i \in 1 .. added :
                         /\ new[i].status = "completed"
                         /\ state.greenhouses[new[i].greenhouseId].currentTime = 1
                         /\ state'.greenhouses[new[i].greenhouseId].currentTime = 0
                \/ /\ last'.op = "cancel"
                   /\ added = 1
                   /\ new[1].status = "canceled"
                   /\ new[1].greenhouseId = state.activeTimer
                   /\ IsRunning(state.greenhouses[state.activeTimer])]_vars

\* A completed and a canceled entry have been added in front of the seed
\* entries, which are as they were.
C14_Witness ==
    /\ Len(logs.entries) = SeedIds + 2
    /\ logs.entries[1].status = "completed"
    /\ logs.entries[2].status = "canceled"
    /\ SubSeq(logs.entries, 3, SeedIds + 2) = defaultLogsState.entries

C16_CompletedIsLogged ==
    \A k \in DOMAIN state.greenhouses :
        IsCompleted(state.greenhouses[k]) =>
            \E i \in DOMAIN logs.entries :
                /\ logs.entries[i].status = "completed"
                /\ logs.entries[i].greenhouseId = k
                /\ logs.entries[i].date = state.greenhouses[k].lastRun

\* The tick that reached 0 has just fired, and the entry of the run is the
\* newest of the log.
C16_Witness ==
    /\ last.op = "tick"
    /\ Truthy(state.activeTimer)
    /\ IsCompleted(state.greenhouses[state.activeTimer])
    /\ run.ticks = run.minutes * 60
    /\ logs.entries[1].status = "completed"
    /\ logs.entries[1].date = state.greenhouses[state.activeTimer].lastRun

\* C17: the entries rendered for a greenhouse are exactly the entries of the
\* log with its key, each once, in non-increasing order of date, whatever the
\* order of the log, and the log is as it was.
C17_GreenhouseLogsFilteredSorted ==
    [][last'.op = "render" =>
          LET shown == last'.greenhouseLogs
              mine == {j \in DOMAIN logs.entries :
                          logs.entries[j].greenhouseId = last'.key}
          IN  /\ logs' = logs
              /\ Len(shown) = Cardinality(mine)
              /\ \A j \in mine : \E i \in DOMAIN shown : shown[i] = logs.entries[j]
              /\ \A i \in DOMAIN shown : \E j \in mine : shown[i] = logs.entries[j]
              /\ \A i, j \in DOMAIN shown : i < j => shown[i].date >= shown[j].date
              /\ last'.lastRun = IF mine = {} THEN Null
                                 ELSE shown[1].date]_vars

\* Three entries of one greenhouse were rendered from a log that holds the
\* oldest of them first and two of one date behind it.
C17_Witness ==
    /\ last.op = "render"
    /\ Len(last.greenhouseLogs) = 3
    /\ logs.entries[1].date < logs.entries[2].date
    /\ logs.entries[2].date = logs.entries[3].date
    /\ last.greenhouseLogs = <<logs.entries[2], logs.entries[3], logs.entries[1]>>

\* The entries of the log made since startup.
Generated == {i \in DOMAIN logs.entries : logs.entries[i].id >= FirstGeneratedId}

\* Timers started since startup: each Start moves the clock by a second.
Starts == (clock - BootTime) \div SecondMs

\* C18: no run, named by its greenhouse and its start, has two entries in the
\* log, of one status or of two, and the log holds no more entries made since
\* startup than timers were started.
C18_RunLoggedAtMostOnce ==
    /\ \A i, j \in Generated :
          (/\ logs.entries[i].greenhouseId = logs.entries[j].greenhouseId
           /\ logs.entries[i].date = logs.entries[j].date) => i = j
    /\ Cardinality(Generated) <= Starts

\* The button of the timer view was pressed after the tick that completed the
\* run: the run has its completed entry and no other.
C18_Witness ==
    /\ last.op = "back"
    /\ Starts = MaxStarts
    /\ Cardinality(Generated) = MaxStarts
    /\ logs.entries[1].status = "completed"
    /\ logs.entries[1].greenhouseId = last.key
    /\ logs.entries[1].date = state.greenhouses[last.key].lastRun

\* C19: in every reachable state the pointer names a greenhouse exactly when
\* that greenhouse has a currentTime, and every greenhouse the pointer does
\* not name is Idle; with a null pointer all greenhouses are Idle.
C19_PointerAgreesWithRegistry ==
    /\ state.activeTimer # Null =>
          /\ state.activeTimer \in DOMAIN state.greenhouses
          /\ state.greenhouses[state.activeTimer].currentTime # Null
    /\ \A k \in DOMAIN state.greenhouses :
          k # state.activeTimer =>
              /\ state.greenhouses[k].currentTime = Null
              /\ state.greenhouses[k].targetTime = Null

\* The pointer names a greenhouse that has completed a second run, while the
\* other greenhouse is Idle after a run of its own.
C19_Witness ==
    /\ Truthy(state.activeTimer)
    /\ IsCompleted(state.greenhouses[state.activeTimer])
    /\ Starts = MaxStarts
    /\ \E k \in DOMAIN state.greenhouses :
          /\ k # state.activeTimer
          /\ state.greenhouses[k].currentTime = Null
          /\ state.greenhouses[k].lastRun # Null

\* C20: every entry made since startup has a duration in 0 .. 30; while a run
\* started with m minutes is Running with 1 .. m*60 seconds left, the duration
\* a cancel would log is in 0 .. m and the duration its completing tick logs
\* is m; the entry a cancel or a completing tick has just made is in 0 .. m,
\* respectively m.
C20_DurationWithinSelected ==
    /\ \A i \in Generated : logs.entries[i].duration \in 0 .. 30
    /\ (TimerViewRendered /\ IsRunning(ActiveGreenhouse)) =>
          /\ run.key = state.activeTimer
          /\ run.minutes \in TimerMinutes
          /\ ActiveGreenhouse.currentTime \in 1 .. run.minutes * 60
          /\ CanceledDuration(ActiveGreenhouse) \in 0 .. run.minutes
          /\ CompletedDuration(ActiveGreenhouse) = run.minutes
    /\ last.op = "cancel" =>
          /\ logs.entries[1].status = "canceled"
          /\ logs.entries[1].duration \in 0 .. last.minutes
    /\ (last.op = "tick" /\ run.minutes > 0 /\ run.ticks = run.minutes * 60) =>
          /\ logs.entries[1].status = "completed"
          /\ logs.entries[1].duration = run.minutes

\* A run of 30 minutes was canceled before its first tick, with all of its
\* 1800 seconds left: the entry says 0.
C20_Witness ==
    /\ last.op = "cancel"
    /\ last.minutes = 30
    /\ last.wholeMinutes = 0
    /\ logs.entries[1].status = "canceled"
    /\ logs.entries[1].duration = 0

====
